---- MODULE Spec2Model ----
(***************************************************************************)
(* Model of the authenticated HTTP client core of babbage88/proxmox:       *)
(* proxmox.Client (client.go) with Login, the request pipeline do, and the *)
(* resource operations of vm.go.  Goroutines calling into one shared       *)
(* Client are the processes; the remote server is nondeterministic.        *)
(***************************************************************************)
EXTENDS Integers, Sequences, FiniteSets, TLC

\* ------------------------------------------------------------ bounds
NumProcs == 2
MaxOps == 2
MaxLen == 3
MaxKeys == 2

Procs == 1..NumProcs
NoProc == 0

\* ------------------------------------------------------------ constants
\* AuthMethod (client.go:35-38)
AuthPassword == "AuthPassword"
AuthToken == "AuthToken"

\* loginExpiry: 1 * time.Hour, counted in clock ticks of half an hour
loginExpiry == 2

\* The zero time.Time lies far in the past: the clock starts a full expiry
\* window after it, so time.Since(zero) >= loginExpiry always.
StartTime == loginExpiry

\* The clock is followed for one expiry window: long enough for a login made
\* at the start to be within its window and then to expire.
MaxTime == loginExpiry

\* ------------------------------------------------------------ state
VARIABLES
    args,         \* the arguments the constructor is called with
    built,        \* what the constructor returned: "none" before, "client", "error"
    baseURL,      \* Client.baseURL
    username,     \* Client.username
    password,     \* Client.password
    insecureSkipVerify, \* httpClient.Transport.TLSClientConfig.InsecureSkipVerify
    authMethod,   \* Client.authMethod
    input,        \* the value a helper function is called on
    output,       \* what the helper function returned
    cred,         \* Client.authTicket, csrfToken, authCookie, lastLogin (memory)
    credHist,     \* completed writes of cred, oldest first (credHist[1] = zero value)
    view,         \* per goroutine: oldest version of cred an unsynchronised read may see
    loginMu,      \* holder of Client.loginMu, NoProc if free
    authMuW,      \* writer holding Client.authMu, NoProc if none
    authMuR,      \* goroutines holding Client.authMu for reading
    now,          \* wall clock
    nLoginPosts,  \* POSTs sent to /api2/json/access/ticket so far
    nOps,         \* calls started so far
    pc,           \* per goroutine: position in the running call
    call,         \* per goroutine: the running call and its arguments
    req,          \* per goroutine: the http.Request being built / dispatched
    resp,         \* per goroutine: what httpClient.Do handed back to the call
    ret           \* per goroutine: what the call returned

\* what construction fixes
config == <<args, built, baseURL, username, password, insecureSkipVerify,
            authMethod>>

\* the helper functions work on their arguments only
fn == <<input, output>>

vars == <<config, fn, cred, credHist, view, loginMu, authMuW, authMuR, now,
          nLoginPosts, nOps, pc, call, req, resp, ret>>

\* Credential State at construction (newClient leaves the fields zero).
\* ticket/csrf/cookie: 0 is ""/nil, k > 0 is the value issued by login POST k.
ZeroCred == [ticket |-> 0, csrf |-> 0, cookie |-> 0, lastLogin |-> 0]

\* ------------------------------------------------------------ arguments
DoOps == {"CreateVM", "GetVMConfig", "StartVM", "StopVM", "UpdateVMConfig"}
ResourceOps == DoOps \cup {"ListVMs"}
StateChangingOps == {"CreateVM", "UpdateVMConfig", "StartVM", "StopVM"}

Contexts == {"live", "canceled"}

\* a nil context: http.NewRequestWithContext refuses it
BuildContexts == {"live", "nil"}

\* header names as canonicalised by http.Header.Set
AuthHeaders == {"Authorization", "Cookie", "CSRFPreventionToken"}
HeaderMaps == {{}, {"Content-Type"}, {"Authorization"}, {"Cookie"},
               {"CSRFPreventionToken"}}

\* decode targets: none (nil), or a pointer to a struct / map / slice that is
\* zero or already populated
OutNone == [kind |-> "nil", val |-> "zero"]
OutTargets == {OutNone} \cup
    [kind : {"struct", "map", "slice"}, val : {"zero", "prior"}]

\* a call: the operation, its arguments, and what held when it was made
\* (valid: Credential State valid; ver: latest completed write of it);
\* before: the Credential State found under loginMu; sent: requests the call
\* has handed to httpClient.Do; form: the form parameters of its body
NoCall == [op |-> "none", ctx |-> "live", csrf |-> FALSE, hdrs |-> {},
           out |-> OutNone, valid |-> FALSE, ver |-> 0, before |-> ZeroCred,
           sent |-> 0, form |-> <<>>]

NoReq == [authz |-> "none",
          cookie |-> "none", cookieVal |-> 0, cookieVer |-> 0,
          csrf |-> "none", csrfVal |-> 0, csrfVer |-> 0,
          accept |-> FALSE, ctype |-> FALSE,
          attached |-> {}, method |-> "none", form |-> <<>>]

\* outcome of httpClient.Do: for a login POST its number (id) and what a
\* decodable body and the cookies carried; for a resource request status and body
NoResp == [kind |-> "none", ticket |-> FALSE, csrf |-> FALSE, cookie |-> FALSE,
           id |-> 0, status |-> 0, body |-> "empty"]

NoRet == [kind |-> "none", status |-> 0, errors |-> "nil", out |-> OutNone]

\* ------------------------------------------------------------ server side
\* response bodies the server may send
\*   empty        zero bytes
\*   nonjson      bytes that do not parse as a JSON object
\*   obj          {}
\*   errors_obj   {"errors": {"f": "d"}}      errors_empty  {"errors": {}}
\*   errors_null  {"errors": null}            errors_data   {"errors": {..}, "data": {..}}
\*   data_null    {"data": null}
\*   data_obj     {"data": {..}}              data_arr      {"data": [..]}
Bodies == {"empty", "nonjson", "obj", "errors_obj", "errors_empty", "errors_null",
           "errors_data", "data_null", "data_obj", "data_arr"}
Statuses == {200, 204, 400, 403}

\* what httpClient.Do hands back: a transport error or a response
Responses == {[kind |-> "transport", status |-> 0, body |-> "empty"]} \cup
    [kind : {"response"}, status : Statuses, body : Bodies]

\* login responses: transport error, non-200, 200 with an undecodable body, or
\* 200 with a decodable body that may or may not carry ticket, CSRF token and
\* a PVEAuthCookie cookie
LoginResponses ==
    [kind : {"transport", "status", "badbody"},
     ticket : {FALSE}, csrf : {FALSE}, cookie : {FALSE}]
    \cup [kind : {"ok"}, ticket : BOOLEAN, csrf : BOOLEAN, cookie : BOOLEAN]

\* ------------------------------------------------------------ pure parts
\* the validity check without its ticket half
Valid_TimeOnly(c, t) == t - c.lastLogin < loginExpiry

\* client.go:122  time.Since(c.lastLogin) < c.loginExpiry && c.authTicket != ""
Valid(c, t) == t - c.lastLogin < loginExpiry /\ c.ticket # 0

\* client.go:226-229: json.Unmarshal(bodyBytes, &wrapper) with errors ignored;
\* wrapper.Errors stays a nil map unless the body holds an errors object
ErrorsOf(body) ==
    CASE body \in {"errors_obj", "errors_data"} -> "nonempty"
      [] body = "errors_empty" -> "empty"
      [] OTHER -> "nil"

\* client.go:237-240: the bytes json.RawMessage captures for "data"
\* (a JSON null is captured as the four bytes null)
RawData(body) ==
    CASE body \in {"data_obj", "errors_data"} -> "object"
      [] body = "data_arr" -> "array"
      [] body = "data_null" -> "null"
      [] OTHER -> "absent"

\* client.go:241: json.Unmarshal(wrapper.Data, out)
\*   null    zeroes a map or slice target, leaves a struct target alone
\*   object  fills a struct, fills (or allocates) a map, fails on a slice
\*   array   replaces a slice, fails on a struct or map
DecodeInto(raw, out) ==
    CASE raw = "null" ->
            [err |-> FALSE,
             out |-> IF out.kind \in {"map", "slice"}
                     THEN [out EXCEPT !.val = "zero"] ELSE out]
      [] raw = "object" /\ out.kind \in {"struct", "map"} ->
            [err |-> FALSE,
             out |-> [out EXCEPT !.val = IF out.val = "prior" THEN "merged"
                                         ELSE "decoded"]]
      [] raw = "array" /\ out.kind = "slice" ->
            [err |-> FALSE, out |-> [out EXCEPT !.val = "decoded"]]
      [] OTHER -> [err |-> TRUE, out |-> out]

\* the envelope parsed whether or not a decode target was passed
UnwrapData_AlwaysParses(r, out) ==
    IF r.body = "empty"
    THEN [kind |-> "ok", status |-> 0, errors |-> "nil", out |-> out]
    ELSE IF r.body = "nonjson"
    THEN [kind |-> "decode", status |-> 0, errors |-> "nil", out |-> out]
    ELSE IF RawData(r.body) # "absent" /\ out.kind # "nil"
    THEN LET d == DecodeInto(RawData(r.body), out)
         IN  [kind |-> IF d.err THEN "decode" ELSE "ok", status |-> 0,
              errors |-> "nil", out |-> d.out]
    ELSE [kind |-> "ok", status |-> 0, errors |-> "nil", out |-> out]

\* client.go:233-247: a response below 400: the envelope is parsed only when a
\* decode target was passed and the body is not empty
UnwrapData(r, out) ==
    IF out.kind # "nil" /\ r.body # "empty"
    THEN IF r.body = "nonjson"
         THEN [kind |-> "decode", status |-> 0, errors |-> "nil", out |-> out]
         ELSE IF RawData(r.body) # "absent"
         THEN LET d == DecodeInto(RawData(r.body), out)
              IN  [kind |-> IF d.err THEN "decode" ELSE "ok", status |-> 0,
                   errors |-> "nil", out |-> d.out]
         ELSE [kind |-> "ok", status |-> 0, errors |-> "nil", out |-> out]
    ELSE [kind |-> "ok", status |-> 0, errors |-> "nil", out |-> out]

\* do with the error of parsing the error body returned instead of ignored
Unwrap_ErrBodyChecked(r, out) ==
    IF r.kind = "transport"
    THEN [kind |-> "transport", status |-> 0, errors |-> "nil", out |-> out]
    ELSE IF r.status >= 400
    THEN IF r.body \in {"empty", "nonjson"}
         THEN [kind |-> "decode", status |-> 0, errors |-> "nil", out |-> out]
         ELSE [kind |-> "APIError", status |-> r.status,
               errors |-> ErrorsOf(r.body), out |-> out]
    ELSE UnwrapData(r, out)

\* do that decodes the data of an error body into the target before it
\* returns the APIError
Unwrap_DecodesErrorBody(r, out) ==
    IF r.kind = "transport"
    THEN [kind |-> "transport", status |-> 0, errors |-> "nil", out |-> out]
    ELSE IF r.status >= 400
    THEN [kind |-> "APIError", status |-> r.status, errors |-> ErrorsOf(r.body),
          out |-> UnwrapData(r, out).out]
    ELSE UnwrapData(r, out)

\* client.go:212-247: what do returns for the outcome r of httpClient.Do
Unwrap(r, out) ==
    IF r.kind = "transport"
    THEN [kind |-> "transport", status |-> 0, errors |-> "nil", out |-> out]
    ELSE IF r.status >= 400
    THEN [kind |-> "APIError", status |-> r.status, errors |-> ErrorsOf(r.body),
          out |-> out]
    ELSE UnwrapData(r, out)

\* vm.go:209-227: what ListVMs returns for the outcome r of httpClient.Do;
\* the result slice is a fresh []QemuVm
ListVMsResult(r) ==
    LET fresh == [kind |-> "slice", val |-> "zero"] IN
    IF r.kind = "transport"
    THEN [kind |-> "transport", status |-> 0, errors |-> "nil", out |-> OutNone]
    ELSE IF r.status # 200
    THEN [kind |-> "status", status |-> r.status, errors |-> "nil", out |-> OutNone]
    ELSE IF r.body \in {"empty", "nonjson", "data_obj", "errors_data"}
    THEN [kind |-> "decode", status |-> 0, errors |-> "nil", out |-> OutNone]
    ELSE [kind |-> "ok", status |-> 0, errors |-> "nil",
          out |-> IF r.body = "data_arr" THEN [fresh EXCEPT !.val = "decoded"]
                  ELSE fresh]

\* vm.go:36,73,103,116,173: the csrf argument each operation passes to do
CsrfArg(op) == op \in {"CreateVM", "UpdateVMConfig"}

\* vm.go:31-33,172: the headers argument each operation passes to do
HeadersArg(op) ==
    IF op \in {"CreateVM", "UpdateVMConfig"} THEN {"Content-Type"} ELSE {}

\* vm.go:36,73,103,116,173: the method each operation passes to do (the
\* pipeline called on its own is called with GET)
MethodArg(op) ==
    CASE op = "CreateVM" -> "POST"
      [] op = "UpdateVMConfig" -> "PUT"
      [] op \in {"StartVM", "StopVM"} -> "POST"
      [] OTHER -> "GET"

\* vm.go:72-73,100-103,113-116: the decode target each operation passes to do
OutArg(op) ==
    IF op \in {"GetVMConfig", "StartVM", "StopVM"}
    THEN [kind |-> "map", val |-> "zero"] ELSE OutNone

\* client.go:188-189  req.Header.Set("Authorization", "PVEAPIToken="+...)
AttachToken(r) == [r EXCEPT !.authz = "token"]

\* client.go:193-195  CSRF header from c.csrfToken read at version ver
AttachCSRF(r, c, ver) ==
    IF c.csrf # 0
    THEN [r EXCEPT !.csrf = "cred", !.csrfVal = c.csrf, !.csrfVer = ver]
    ELSE r

\* the raw ticket header preferred over the stored cookie
AttachCookie_TicketFirst(r, c, ver) ==
    IF c.ticket # 0
    THEN [r EXCEPT !.cookie = "raw", !.cookieVal = c.ticket, !.cookieVer = ver]
    ELSE IF c.cookie # 0
    THEN [r EXCEPT !.cookie = "jar", !.cookieVal = c.cookie, !.cookieVer = ver]
    ELSE r

\* client.go:199-203  the cookie jar entry, else a raw Cookie header, else nothing
AttachCookie(r, c, ver) ==
    IF c.cookie # 0
    THEN [r EXCEPT !.cookie = "jar", !.cookieVal = c.cookie, !.cookieVer = ver]
    ELSE IF c.ticket # 0
    THEN [r EXCEPT !.cookie = "raw", !.cookieVal = c.ticket, !.cookieVer = ver]
    ELSE r

\* client.go:207-210  Accept, then every caller header replaces what is there
Overlay(r, hdrs) ==
    [r EXCEPT !.accept = TRUE,
              !.ctype = "Content-Type" \in hdrs,
              !.authz = IF "Authorization" \in hdrs THEN "caller" ELSE @,
              !.cookie = IF "Cookie" \in hdrs THEN "caller" ELSE @,
              !.csrf = IF "CSRFPreventionToken" \in hdrs THEN "caller" ELSE @]

\* client.go:169-172: the fields a decoded login response k writes
NewCred(rsp, t) ==
    [ticket |-> IF rsp.ticket THEN rsp.id ELSE 0,
     csrf |-> IF rsp.csrf THEN rsp.id ELSE 0,
     cookie |-> IF rsp.cookie THEN rsp.id ELSE 0,
     lastLogin |-> t]

\* ------------------------------------------------------------ memory model
\* Latest completed write of the Credential State.
CurVer == Len(credHist)

\* Fields an in-progress Login write (client.go:169-172) has stored already.
WrittenAt(at) ==
    CASE at = "L_wCsrf" -> {"ticket"}
      [] at = "L_wCookie" -> {"ticket", "csrf"}
      [] at = "L_wTime" -> {"ticket", "csrf", "cookie"}
      [] OTHER -> {}

\* Version of the value field f holds in memory right now.
MemVer(f) ==
    IF authMuW # NoProc /\ f \in WrittenAt(pc[authMuW]) THEN CurVer + 1 ELSE CurVer

\* A read of field f by p without holding authMu (vm.go:205-206) races with
\* Login's write: it may observe any write not ordered before the last
\* synchronisation of p, completed or in progress.
RacyReads(p, f) ==
    {[ver |-> i, val |-> credHist[i][f]] : i \in view[p]..CurVer}
    \cup {[ver |-> MemVer(f), val |-> cred[f]]}

\* Acquiring loginMu or authMu orders p after every completed write.
Synced(p) == [view EXCEPT ![p] = CurVer]

\* ------------------------------------------------------------ construction
\* base URLs: strings over an ordinary character, the slash, and a percent
\* sign (never followed by two hex digits here, so url.Parse rejects it)
Chars == {"x", "/", "%"}

RECURSIVE StringsUpTo(_)
StringsUpTo(n) ==
    IF n = 0 THEN {<<>>}
    ELSE LET shorter == StringsUpTo(n - 1)
         IN  shorter \cup {Append(t, ch) : t \in shorter, ch \in Chars}

BaseURLs == StringsUpTo(MaxLen)

RECURSIVE TrimRight(_)

\* only one trailing slash is cut
TrimRight_OneSlash(t) ==
    IF t # <<>> /\ t[Len(t)] = "/" THEN SubSeq(t, 1, Len(t) - 1) ELSE t

\* strings.TrimRight(base, "/")
TrimRight(t) ==
    IF t # <<>> /\ t[Len(t)] = "/" THEN TrimRight(SubSeq(t, 1, Len(t) - 1))
    ELSE t

\* url.Parse: fails on an invalid percent escape
ParseFails(t) == \E i \in 1..Len(t) : t[i] = "%"

NoClient == [baseURL |-> "nil", username |-> "", password |-> "",
             insecureSkipVerify |-> FALSE, authMethod |-> AuthPassword]

\* client.go:82-109  newClient
newClient(base, user, pass, method, ignoreTlsError) ==
    IF base = <<>>
    THEN [err |-> "base URL required", c |-> NoClient]
    ELSE IF ParseFails(TrimRight(base))
    THEN [err |-> "invalid base URL", c |-> NoClient]
    ELSE [err |-> "nil",
          c |-> [baseURL |-> TrimRight(base), username |-> user,
                 password |-> pass, insecureSkipVerify |-> ignoreTlsError,
                 authMethod |-> method]]

\* client.go:63-69  NewClient
NewClient(a) ==
    newClient(a.base, a.username, a.password,
              IF a.useToken THEN AuthToken ELSE AuthPassword, TRUE)

\* client.go:72-74  NewClientPassword
NewClientPassword(a) ==
    newClient(a.base, a.username, a.password, AuthPassword, TRUE)

\* client.go:77-80  NewClientToken
NewClientToken(a) ==
    newClient(a.base, a.username, a.password, AuthToken, TRUE)

\* the constructor has returned r to its caller
Constructed(r) ==
    /\ built = IF r.err = "nil" THEN "client" ELSE "error"
    /\ baseURL = r.c.baseURL
    /\ username = r.c.username
    /\ password = r.c.password
    /\ insecureSkipVerify = r.c.insecureSkipVerify
    /\ authMethod = r.c.authMethod

\* the arguments the constructors are tried with
CtorArgs ==
    [base : BaseURLs, username : {"root@pam"}, password : {"secret"},
     tlsCfg : BOOLEAN, useToken : BOOLEAN]

\* the client the goroutines share
SharedArgs == [base |-> <<"x">>, username |-> "root@pam", password |-> "secret",
               tlsCfg |-> FALSE, useToken |-> FALSE]

\* ------------------------------------------------------------ helpers
NoInput == [of |-> "none"]
NoOutput == [done |-> FALSE]

\* no helper function is under way
NoHelper == input = NoInput /\ output = NoOutput

\* the helper function called on input has returned r, or ended the process
Apply(of, r) ==
    /\ input.of = of
    /\ ~output.done
    /\ output' = r
    /\ UNCHANGED <<config, input, cred, credHist, view, loginMu, authMuW,
                   authMuR, now, nLoginPosts, nOps, pc, call, req, resp, ret>>

\* ------------------------------------------------------------ LxcContainer
RECURSIVE KeysUpTo(_)
KeysUpTo(n) ==
    IF n = 0 THEN {<<>>}
    ELSE LET shorter == KeysUpTo(n - 1)
         IN  shorter \cup {Append(t, k) : t \in shorter, k \in {"ssh-a", "ssh-b"}}

\* part_000:81-111  LxcContainer (the fields ToFormParams combines)
LxcContainers ==
    [of : {"ToFormParams"}, VmId : {0, 100}, Hostname : {"", "ct"},
     Storage : {"", "local"}, RootFsSize : {"", "8G"},
     SshPublicKeys : KeysUpTo(MaxKeys)]

\* strings.Builder: every key but the last followed by a newline
RECURSIVE JoinLines(_)
JoinLines(keys) ==
    IF Len(keys) = 1 THEN <<keys[1]>>
    ELSE <<keys[1], "\n">> \o JoinLines(Tail(keys))

\* the key list refused unless it holds exactly one key
ParseSshPublicKeySlice_SingleOnly(keys) ==
    IF Len(keys) # 1 THEN [err |-> TRUE, val |-> <<>>]
    ELSE [err |-> FALSE, val |-> <<keys[1]>>]

\* pretty_logger.go:331-352  ParseSshPublicKeySlice
ParseSshPublicKeySlice(keys) ==
    IF Len(keys) < 1 THEN [err |-> TRUE, val |-> <<>>]
    ELSE IF Len(keys) = 1 THEN [err |-> FALSE, val |-> <<keys[1]>>]
    ELSE [err |-> FALSE, val |-> JoinLines(keys)]

\* a map entry set when cond holds
SetIf(cond, k, v) == IF cond THEN k :> v ELSE <<>>

\* part_000:113-177  ToFormParams: the parameter map, or os.Exit(1)
ToFormParams(lxc) ==
    LET parsed == ParseSshPublicKeySlice(lxc.SshPublicKeys) IN
    IF Len(lxc.SshPublicKeys) >= 1 /\ parsed.err
    THEN [done |-> TRUE, exited |-> TRUE, params |-> <<>>]
    ELSE [done |-> TRUE, exited |-> FALSE,
          params |->
              SetIf(lxc.RootFsSize # "" /\ lxc.Storage # "", "rootfs",
                    <<lxc.Storage, ":", lxc.RootFsSize>>)
              @@ SetIf(lxc.Storage # "", "storage", <<lxc.Storage>>)
              @@ SetIf(Len(lxc.SshPublicKeys) >= 1, "ssh-public-keys", parsed.val)
              @@ SetIf(lxc.Hostname # "", "hostname", <<lxc.Hostname>>)
              @@ SetIf(lxc.VmId # 0, "vmid", <<lxc.VmId>>)]

CallToFormParams == Apply("ToFormParams", ToFormParams(input))

\* ------------------------------------------------------------ request URLs
\* URLs are sequences of pieces: a delimiter ("/", "?", "#", "%") or a run of
\* characters that holds none.  Node names the operations are called with:
NodeChars == {"n", "/", "?", "#"}

RECURSIVE NodesUpTo(_)
NodesUpTo(n) ==
    IF n = 0 THEN {<<>>}
    ELSE LET shorter == NodesUpTo(n - 1)
         IN  shorter \cup {Append(t, ch) : t \in shorter, ch \in NodeChars}

NodeNames == NodesUpTo(MaxLen)

\* the two hex digits net/url writes after "%" for a delimiter
HexOf(ch) ==
    CASE ch = "/" -> "2F" [] ch = "?" -> "3F" [] ch = "#" -> "23" [] ch = "%" -> "25"

CharOf(hex) ==
    CASE hex = "2F" -> "/" [] hex = "3F" -> "?" [] hex = "23" -> "#" [] hex = "25" -> "%"

\* net/url escape: every piece of t that is in chars becomes %XX
RECURSIVE Escape(_, _)
Escape(t, chars) ==
    IF t = <<>> THEN <<>>
    ELSE (IF t[1] \in chars THEN <<"%", HexOf(t[1])>> ELSE <<t[1]>>)
         \o Escape(Tail(t), chars)

\* net/url unescape: %XX becomes the character it stands for
RECURSIVE Unescape(_)
Unescape(t) ==
    IF t = <<>> THEN <<>>
    ELSE IF t[1] = "%" /\ Len(t) >= 2 /\ t[2] \in {"2F", "3F", "23", "25"}
    THEN <<CharOf(t[2])>> \o Unescape(SubSeq(t, 3, Len(t)))
    ELSE <<t[1]>> \o Unescape(Tail(t))

\* url.PathEscape (a path segment: the slash is escaped too)
PathEscape(t) == Escape(t, {"/", "?", "#", "%"})

\* URL.String() writes URL.Path through EscapedPath (the slash is kept)
EscapedPath(t) == Escape(t, {"?", "#", "%"})

\* client.go:19  apiNodesPath
apiNodesPath == <<"/", "api2", "/", "json", "/", "nodes">>

\* what follows the node in the path of an operation
\* (vm.go:30, 69, 98, 111, 171; client.go:20-21)
AfterNode(op, vmid) ==
    CASE op = "CreateVM" -> <<"/", "qemu">>
      [] op \in {"GetVMConfig", "UpdateVMConfig"} ->
            <<"/", "qemu", "/", vmid, "/", "config">>
      [] op = "StartVM" -> <<"/", "qemu", "/", vmid, "/", "status", "/", "start">>
      [] op = "StopVM" -> <<"/", "qemu", "/", vmid, "/", "status", "/", "stop">>
      [] op = "ListVMs" -> <<"/", "qemu">>

\* vm.go:30, 69, 98, 111, 171: the path an operation passes to do
OpPath(op, node, vmid) ==
    apiNodesPath \o <<"/">> \o PathEscape(node) \o AfterNode(op, vmid)

\* client.go:179-182: full.Path = ... + path; full.String()  (after the host;
\* the base URL of the client has no path)
DoURL(path) == EscapedPath(path)

\* vm.go:189-193: the URL ListVMs formats (after the base URL)
ListVMsURL(node, full) ==
    apiNodesPath \o <<"/">> \o node
        \o <<"/", "qemu", "?", IF full THEN "full=1" ELSE "full=0">>

\* first position of ch in t, or 0
IndexOf(t, ch) ==
    IF \E i \in 1..Len(t) : t[i] = ch
    THEN CHOOSE i \in 1..Len(t) : t[i] = ch /\ \A j \in 1..(i - 1) : t[j] # ch
    ELSE 0

\* http.NewRequestWithContext parses the URL (client.go:182, vm.go:195):
\* the fragment starts at the first "#" and is not sent, the query at the
\* first "?" before it; path and query go on the wire as written
RequestTarget(raw) ==
    LET f == IndexOf(raw, "#")
        sent == IF f = 0 THEN raw ELSE SubSeq(raw, 1, f - 1)
        q == IndexOf(sent, "?")
    IN  [done |-> TRUE,
         path |-> IF q = 0 THEN sent ELSE SubSeq(sent, 1, q - 1),
         query |-> IF q = 0 THEN <<>> ELSE SubSeq(sent, q + 1, Len(sent))]

\* the segments the server finds in a path: cut at the slashes, then unescaped
RECURSIVE Split(_)
Split(t) ==
    LET i == IndexOf(t, "/") IN
    IF i = 0 THEN <<t>>
    ELSE <<SubSeq(t, 1, i - 1)>> \o Split(SubSeq(t, i + 1, Len(t)))

Segments(path) == [i \in 1..Len(Split(path)) |-> Unescape(Split(path)[i])]

\* the calls of the resource operations: node, vmid and (ListVMs) full
PathCalls ==
    [of : DoOps, node : NodeNames, vmid : {"100"}, full : {FALSE}]
    \cup [of : {"ListVMs"}, node : NodeNames, vmid : {"100"}, full : BOOLEAN]

\* vm.go:30-36, 69-73, 98-103, 111-116, 171-173 with client.go:179-182
CallOpURL ==
    \E op \in DoOps :
        Apply(op, RequestTarget(DoURL(OpPath(op, input.node, input.vmid))))

\* vm.go:188-195
CallListVMsURL ==
    Apply("ListVMs", RequestTarget(ListVMsURL(input.node, input.full)))

\* ------------------------------------------------------------ VM config
\* fmt.Sprintf("%d", n): the decimal digits of n, most significant first
DigitChars == <<"0", "1", "2", "3", "4", "5", "6", "7", "8", "9">>

RECURSIVE Digits(_)
Digits(n) ==
    IF n < 10 THEN <<DigitChars[n + 1]>>
    ELSE Digits(n \div 10) \o <<DigitChars[(n % 10) + 1]>>

Sprintd(n) == IF n < 0 THEN <<"-">> \o Digits(-n) ELSE Digits(n)

\* part_000:64-73  *ProxmoxQemuVmConfig: nil, or a config with a name (the
\* other typed fields are set the way Name is) and a Raw map
NilCfg == [nil |-> TRUE, Name |-> <<>>, Raw |-> <<>>]

RawMaps == {<<>>, "vmid" :> <<"9">>, "vmid" :> <<>>, "net0" :> <<"virtio">>}

Cfgs == {NilCfg} \cup [nil : {FALSE}, Name : {<<>>, <<"vm">>}, Raw : RawMaps]

SomeCfg == [nil |-> FALSE, Name |-> <<"vm">>, Raw |-> <<>>]

\* vm.go:40-65  ToParams: the typed fields that are set, then every Raw entry
\* with a value, each by params.Set
ToParams(cfg) ==
    [k \in {k \in DOMAIN cfg.Raw : cfg.Raw[k] # <<>>} |-> cfg.Raw[k]]
    @@ SetIf(cfg.Name # <<>>, "name", cfg.Name)

\* vmid set first, the entries of the config after it
CreateVMParams_RawWins(vmid, cfg) == ToParams(cfg) @@ ("vmid" :> Sprintd(vmid))

\* vm.go:27-28  params := cfg.ToParams(); params.Set("vmid", ...)
CreateVMParams(vmid, cfg) == ("vmid" :> Sprintd(vmid)) @@ ToParams(cfg)

\* vm.go:20-25, 167-169: the arguments an operation returns an error for
Rejects(op, vmid, cfg) ==
    \/ op \in {"CreateVM", "UpdateVMConfig"} /\ cfg.nil
    \/ op = "CreateVM" /\ vmid <= 0

\* vm.go:27-28, 36, 170, 173: the form an operation sends as the body
FormArg(op, vmid, cfg) ==
    CASE op = "CreateVM" -> CreateVMParams(vmid, cfg)
      [] op = "UpdateVMConfig" -> ToParams(cfg)
      [] OTHER -> <<>>

\* the calls of CreateVM and UpdateVMConfig
VMCalls == [of : {"CreateVM", "UpdateVMConfig"}, vmid : {-1, 0, 100}, cfg : Cfgs]

\* ------------------------------------------------------------ type_helper
\* the range of int32 (type_helper.go:15)
MaxInt32 == 2147483647
MinInt32 == -MaxInt32 - 1

\* type_helper.go:17  buf := [11]byte{}
BufLen == 11

RECURSIVE Pow10(_)
Pow10(k) == IF k = 0 THEN 1 ELSE 10 * Pow10(k - 1)

\* the values String is called with: both ends of the range, the values
\* around zero and around every power of ten
Int32Values ==
    {MinInt32, MinInt32 + 1, MaxInt32 - 1, MaxInt32} \cup (-100..100)
    \cup UNION {{Pow10(k) - 1, Pow10(k), Pow10(k) + 1,
                 1 - Pow10(k), -Pow10(k), -Pow10(k) - 1} : k \in 1..9}

StringCalls == [of : {"String"}, n : Int32Values]

\* an int64 that is not negative, held as its quotient and remainder by ten
\* (the int64 2147483648 is beyond the integers of the model checker)
DivMod10(x) == [q |-> x \div 10, d |-> x % 10]

\* type_helper.go:19-23  i := int64(n); if i < 0 { i = -i }
Abs64(n) ==
    IF n >= 0 THEN DivMod10(n)
    ELSE IF n % 10 = 0 THEN [q |-> -(n \div 10), d |-> 0]
    ELSE [q |-> -(n \div 10) - 1, d |-> 10 - (n % 10)]

\* type_helper.go:24-35: one digit is written per iteration, from the right
RECURSIVE StringLoop(_, _, _, _)
StringLoop(i, pos, buf, iters) ==
    LET at == pos - 1
        written == IF at \in DOMAIN buf
                   THEN [buf EXCEPT ![at] = DigitChars[i.d + 1]] ELSE buf
    IN  IF i.q = 0
        THEN [pos |-> at, buf |-> written, iters |-> iters + 1,
              inside |-> at \in DOMAIN buf]
        ELSE IF at \in DOMAIN buf
        THEN StringLoop(DivMod10(i.q), at, written, iters + 1)
        ELSE [pos |-> at, buf |-> written, iters |-> iters + 1, inside |-> FALSE]

\* the result of String: the bytes buf[pos:], the lowest position written,
\* the iterations of the loop, and whether every write was inside buf
StringResult(r, pos, buf) ==
    [done |-> TRUE,
     str |-> [k \in 1..(BufLen - pos) |-> buf[pos + k - 1]],
     pos |-> pos, iters |-> r.iters, inside |-> r.inside /\ pos \in DOMAIN buf]

\* String that writes no sign
String_NoSign(n) ==
    LET r == StringLoop(Abs64(n), BufLen, [k \in 0..(BufLen - 1) |-> "0"], 0)
    IN  StringResult(r, r.pos, r.buf)

\* type_helper.go:15-36  String
String(n) ==
    LET r == StringLoop(Abs64(n), BufLen, [k \in 0..(BufLen - 1) |-> "0"], 0)
        pos == IF n < 0 THEN r.pos - 1 ELSE r.pos
        buf == IF n < 0 /\ pos \in DOMAIN r.buf
               THEN [r.buf EXCEPT ![pos] = "-"] ELSE r.buf
    IN  IF r.inside THEN StringResult(r, pos, buf)
        ELSE [done |-> TRUE, str |-> <<>>, pos |-> r.pos, iters |-> r.iters,
              inside |-> FALSE]

CallString == Apply("String", String(input.n))

\* ------------------------------------------------------------ Init
\* the state a new Client is in apart from what the constructor was given
Fresh ==
    /\ cred = ZeroCred
    /\ credHist = <<ZeroCred>>
    /\ view = [p \in Procs |-> 1]
    /\ loginMu = NoProc
    /\ authMuW = NoProc
    /\ authMuR = {}
    /\ now = StartTime
    /\ nLoginPosts = 0
    /\ nOps = 0
    /\ pc = [p \in Procs |-> "idle"]
    /\ call = [p \in Procs |-> NoCall]
    /\ req = [p \in Procs |-> NoReq]
    /\ resp = [p \in Procs |-> NoResp]
    /\ ret = [p \in Procs |-> NoRet]

\* one Client built by NewClientPassword or by NewClientToken
Init ==
    /\ args = SharedArgs
    /\ \/ Constructed(NewClientPassword(args))
       \/ Constructed(NewClientToken(args))
    /\ NoHelper
    /\ Fresh

\* a helper function is about to be called on one of the values in inputs
InitHelper(inputs) ==
    /\ args = SharedArgs
    /\ Constructed(NewClientPassword(args))
    /\ input \in inputs
    /\ output = NoOutput
    /\ Fresh

\* no constructor has been called yet
InitConstruct ==
    /\ args \in CtorArgs
    /\ built = "none"
    /\ baseURL = NoClient.baseURL
    /\ username = NoClient.username
    /\ password = NoClient.password
    /\ insecureSkipVerify = NoClient.insecureSkipVerify
    /\ authMethod = NoClient.authMethod
    /\ NoHelper
    /\ Fresh

\* a constructor is called with args and returns r
Construct(r) ==
    /\ built = "none"
    /\ built' = IF r.err = "nil" THEN "client" ELSE "error"
    /\ baseURL' = r.c.baseURL
    /\ username' = r.c.username
    /\ password' = r.c.password
    /\ insecureSkipVerify' = r.c.insecureSkipVerify
    /\ authMethod' = r.c.authMethod
    /\ UNCHANGED <<args, fn, cred, credHist, view, loginMu, authMuW, authMuR, now,
                   nLoginPosts, nOps, pc, call, req, resp, ret>>

CallNewClient == Construct(NewClient(args))
CallNewClientPassword == Construct(NewClientPassword(args))
CallNewClientToken == Construct(NewClientToken(args))

\* ------------------------------------------------------------ calls
NewCall(op, ctx, csrf, hdrs, out) ==
    [op |-> op, ctx |-> ctx, csrf |-> csrf, hdrs |-> hdrs, out |-> out,
     valid |-> Valid(cred, now), ver |-> CurVer, before |-> ZeroCred,
     sent |-> 0, form |-> <<>>]

\* a goroutine that is idle, or whose previous call has returned, calls again
Start(p, c, at) ==
    /\ pc[p] \in {"idle", "done"}
    /\ nOps < MaxOps
    /\ nOps' = nOps + 1
    /\ call' = [call EXCEPT ![p] = c]
    /\ req' = [req EXCEPT ![p] = NoReq]
    /\ resp' = [resp EXCEPT ![p] = NoResp]
    /\ pc' = [pc EXCEPT ![p] = at]

\* the call returns r: its request, its arguments and the bookkeeping of the
\* call are gone; what it wrote through out is part of the result
Returned(c) == [NoCall EXCEPT !.op = c.op]

Finish(p, r) ==
    /\ pc' = [pc EXCEPT ![p] = "done"]
    /\ ret' = [ret EXCEPT ![p] = r]
    /\ call' = [call EXCEPT ![p] = Returned(call[p])]
    /\ req' = [req EXCEPT ![p] = NoReq]

\* Login without the token-mode early return
CallLogin_NoTokenCheck(p, ctx) ==
    /\ Start(p, NewCall("Login", ctx, FALSE, {}, OutNone), "L_lock")
    /\ ret' = [ret EXCEPT ![p] = NoRet]
    /\ UNCHANGED <<config, fn, cred, credHist, view, loginMu, authMuW, authMuR,
                   now, nLoginPosts>>

\* client.go:112-116  Login: token mode returns nil at once
CallLogin(p, ctx) ==
    /\ IF authMethod = AuthToken
       THEN /\ Start(p, Returned(NewCall("Login", ctx, FALSE, {}, OutNone)), "done")
            /\ ret' = [ret EXCEPT ![p] = [NoRet EXCEPT !.kind = "ok"]]
       ELSE /\ Start(p, NewCall("Login", ctx, FALSE, {}, OutNone), "L_lock")
            /\ ret' = [ret EXCEPT ![p] = NoRet]
    /\ UNCHANGED <<config, fn, cred, credHist, view, loginMu, authMuW, authMuR,
                   now, nLoginPosts>>

\* vm.go:19-37,68-75,97-121,166-174: the operations that go through do,
\* called with vmid and cfg: the arguments are validated, the form is built
\* and do is called
CallVMOp(p, op, vmid, cfg, ctx) ==
    /\ op \in DoOps
    /\ IF Rejects(op, vmid, cfg)
       THEN /\ Start(p, Returned(NewCall(op, ctx, FALSE, {}, OutNone)), "done")
            /\ ret' = [ret EXCEPT ![p] = [NoRet EXCEPT !.kind = "invalid"]]
       ELSE /\ Start(p, [NewCall(op, ctx, CsrfArg(op), HeadersArg(op), OutArg(op))
                            EXCEPT !.form = FormArg(op, vmid, cfg)], "do")
            /\ ret' = [ret EXCEPT ![p] = NoRet]
    /\ UNCHANGED <<config, fn, cred, credHist, view, loginMu, authMuW, authMuR,
                   now, nLoginPosts>>

\* an operation called with a vmid and a config it accepts
CallOp(p, op, ctx) == CallVMOp(p, op, 100, SomeCfg, ctx)

\* CreateVM or UpdateVMConfig called with the arguments under study
CallVM(p) == CallVMOp(p, input.of, input.vmid, input.cfg, "live")

\* client.go:178  do called with arbitrary arguments
CallDo(p, ctx, csrf, hdrs, out) ==
    /\ Start(p, NewCall("do", ctx, csrf, hdrs, out), "do")
    /\ ret' = [ret EXCEPT ![p] = NoRet]
    /\ UNCHANGED <<config, fn, cred, credHist, view, loginMu, authMuW, authMuR,
                   now, nLoginPosts>>

\* vm.go:188-198
CallListVMs(p, ctx) ==
    /\ Start(p, NewCall("ListVMs", ctx, FALSE, {}, OutNone), "lv")
    /\ ret' = [ret EXCEPT ![p] = NoRet]
    /\ UNCHANGED <<config, fn, cred, credHist, view, loginMu, authMuW, authMuR,
                   now, nLoginPosts>>

\* time passes
Tick ==
    /\ now < StartTime + MaxTime
    /\ now' = now + 1
    /\ UNCHANGED <<config, fn, cred, credHist, view, loginMu, authMuW, authMuR,
                   nLoginPosts, nOps, pc, call, req, resp, ret>>

\* ------------------------------------------------------------ Login
\* the status of the login response is not looked at
LoginAccepts_AnyStatus(r) == r.kind \in {"ok", "status"}

\* client.go:140,145,156: only a 200 response with a decodable body goes on
\* to the write; everything else returns an error
LoginAccepts(r) == r.kind = "ok"

\* Login without the login lock: the validity check is not serialised
LoginLock_NoMutex(p) ==
    /\ pc[p] = "L_lock"
    /\ loginMu' = p
    /\ view' = Synced(p)
    /\ call' = [call EXCEPT ![p].before = cred]
    /\ pc' = [pc EXCEPT ![p] = "L_check"]
    /\ UNCHANGED <<config, fn, cred, credHist, authMuW, authMuR, now,
                   nLoginPosts, nOps, req, resp, ret>>

\* client.go:118  c.loginMu.Lock()
LoginLock(p) ==
    /\ pc[p] = "L_lock"
    /\ loginMu = NoProc
    /\ loginMu' = p
    /\ view' = Synced(p)
    /\ call' = [call EXCEPT ![p].before = cred]
    /\ pc' = [pc EXCEPT ![p] = "L_check"]
    /\ UNCHANGED <<config, fn, cred, credHist, authMuW, authMuR, now,
                   nLoginPosts, nOps, req, resp, ret>>

\* client.go:121-142: still valid: return nil; else build the POST (a nil
\* context is refused: return err) and send it (a canceled context makes
\* httpClient.Do fail before anything is sent); the deferred Unlock runs
LoginCheck(p) ==
    /\ pc[p] = "L_check"
    /\ IF Valid(cred, now)
       THEN /\ Finish(p, [NoRet EXCEPT !.kind = "ok"])
            /\ loginMu' = NoProc
            /\ UNCHANGED <<nLoginPosts, resp>>
       ELSE IF call[p].ctx = "nil"
       THEN /\ Finish(p, [NoRet EXCEPT !.kind = "build"])
            /\ loginMu' = NoProc
            /\ UNCHANGED <<nLoginPosts, resp>>
       ELSE IF call[p].ctx = "canceled"
       THEN /\ Finish(p, [NoRet EXCEPT !.kind = "canceled"])
            /\ loginMu' = NoProc
            /\ UNCHANGED <<nLoginPosts, resp>>
       ELSE /\ nLoginPosts' = nLoginPosts + 1
            /\ resp' = [resp EXCEPT ![p] = [NoResp EXCEPT !.kind = "sent",
                                                         !.id = nLoginPosts + 1]]
            /\ pc' = [pc EXCEPT ![p] = "L_wait"]
            /\ call' = [call EXCEPT ![p].sent = @ + 1]
            /\ UNCHANGED <<loginMu, ret, req>>
    /\ UNCHANGED <<config, fn, cred, credHist, view, authMuW, authMuR, now, nOps>>

\* Login that unlocks loginMu only where it returns nil
LoginResponse_NoDeferredUnlock(p, r) ==
    /\ pc[p] = "L_wait"
    /\ r \in LoginResponses
    /\ IF LoginAccepts(r)
       THEN /\ resp' = [resp EXCEPT ![p] = [NoResp EXCEPT !.kind = r.kind,
                                                !.ticket = r.ticket,
                                                !.csrf = r.csrf,
                                                !.cookie = r.cookie,
                                                !.id = resp[p].id]]
            /\ pc' = [pc EXCEPT ![p] = "L_wlock"]
            /\ UNCHANGED <<loginMu, ret, call, req>>
       ELSE /\ resp' = [resp EXCEPT ![p] = [NoResp EXCEPT !.kind = r.kind]]
            /\ Finish(p, [NoRet EXCEPT !.kind = "loginfailed"])
            /\ UNCHANGED loginMu
    /\ UNCHANGED <<config, fn, cred, credHist, view, authMuW, authMuR, now,
                   nLoginPosts, nOps>>

\* client.go:139-166: the outcome of the login POST
LoginResponse(p, r) ==
    /\ pc[p] = "L_wait"
    /\ r \in LoginResponses
    /\ IF LoginAccepts(r)
       THEN /\ resp' = [resp EXCEPT ![p] = [NoResp EXCEPT !.kind = r.kind,
                                                !.ticket = r.ticket,
                                                !.csrf = r.csrf,
                                                !.cookie = r.cookie,
                                                !.id = resp[p].id]]
            /\ pc' = [pc EXCEPT ![p] = "L_wlock"]
            /\ UNCHANGED <<loginMu, ret, call, req>>
       ELSE /\ resp' = [resp EXCEPT ![p] = [NoResp EXCEPT !.kind = r.kind]]
            /\ Finish(p, [NoRet EXCEPT !.kind = "loginfailed"])
            /\ loginMu' = NoProc
    /\ UNCHANGED <<config, fn, cred, credHist, view, authMuW, authMuR, now,
                   nLoginPosts, nOps>>

\* the write lock taken without waiting for the readers to leave
LoginWLock_NoExclusion(p) ==
    /\ pc[p] = "L_wlock"
    /\ authMuW = NoProc
    /\ authMuW' = p
    /\ view' = Synced(p)
    /\ pc' = [pc EXCEPT ![p] = "L_wTicket"]
    /\ UNCHANGED <<config, fn, cred, credHist, loginMu, authMuR, now,
                   nLoginPosts, nOps, call, req, resp, ret>>

\* client.go:168  c.authMu.Lock()
LoginWLock(p) ==
    /\ pc[p] = "L_wlock"
    /\ authMuW = NoProc
    /\ authMuR = {}
    /\ authMuW' = p
    /\ view' = Synced(p)
    /\ pc' = [pc EXCEPT ![p] = "L_wTicket"]
    /\ UNCHANGED <<config, fn, cred, credHist, loginMu, authMuR, now,
                   nLoginPosts, nOps, call, req, resp, ret>>

\* client.go:169-171: one field of the Credential State is stored
LoginWriteField(p, at, f, next) ==
    /\ pc[p] = at
    /\ cred' = [cred EXCEPT ![f] = NewCred(resp[p], now)[f]]
    /\ pc' = [pc EXCEPT ![p] = next]
    /\ UNCHANGED <<config, fn, credHist, view, loginMu, authMuW, authMuR, now,
                   nLoginPosts, nOps, call, req, resp, ret>>

LoginWriteTicket(p) == LoginWriteField(p, "L_wTicket", "ticket", "L_wCsrf")
LoginWriteCsrf(p) == LoginWriteField(p, "L_wCsrf", "csrf", "L_wCookie")
LoginWriteCookie(p) == LoginWriteField(p, "L_wCookie", "cookie", "L_wTime")

\* client.go:172-175: lastLogin = time.Now(), authMu.Unlock(), return nil
\* (the deferred loginMu.Unlock() runs)
LoginWriteTime(p) ==
    /\ pc[p] = "L_wTime"
    /\ cred' = [cred EXCEPT !.lastLogin = NewCred(resp[p], now).lastLogin]
    /\ credHist' = Append(credHist, cred')
    /\ view' = [view EXCEPT ![p] = CurVer + 1]
    /\ authMuW' = NoProc
    /\ loginMu' = NoProc
    /\ resp' = [resp EXCEPT ![p] = [NoResp EXCEPT !.kind = "ok"]]
    /\ Finish(p, [NoRet EXCEPT !.kind = "ok"])
    /\ UNCHANGED <<config, fn, authMuR, now, nLoginPosts, nOps>>

\* ------------------------------------------------------------ do
\* httpClient.Do that does not look at the context of the request
Dispatch_IgnoreCtx(p, r, waitAt) ==
    /\ req' = [req EXCEPT ![p] = r]
    /\ pc' = [pc EXCEPT ![p] = waitAt]
    /\ call' = [call EXCEPT ![p].sent = @ + 1]
    /\ UNCHANGED ret

\* client.go:207-215: headers overlaid, then httpClient.Do(req); a canceled
\* context fails the call before the request leaves
Dispatch(p, r, waitAt) ==
    IF call[p].ctx = "canceled"
    THEN Finish(p, [NoRet EXCEPT !.kind = "canceled", !.out = call[p].out])
    ELSE /\ req' = [req EXCEPT ![p] = r]
         /\ pc' = [pc EXCEPT ![p] = waitAt]
         /\ call' = [call EXCEPT ![p].sent = @ + 1]
         /\ UNCHANGED ret

\* the auth headers the request carries
Carried(r) ==
    {h \in AuthHeaders :
        \/ h = "Authorization" /\ r.authz # "none"
        \/ h = "Cookie" /\ r.cookie # "none"
        \/ h = "CSRFPreventionToken" /\ r.csrf # "none"}

\* client.go:182, 207-210: method and body as passed, headers overlaid
DoRequest(p, r) ==
    Overlay([r EXCEPT !.attached = Carried(r),
                      !.method = MethodArg(call[p].op),
                      !.form = call[p].form], call[p].hdrs)

\* client.go:182-185: the request cannot be built: return err
DoBuildError(p) ==
    /\ pc[p] = "do"
    /\ call[p].ctx = "nil"
    /\ Finish(p, [NoRet EXCEPT !.kind = "build", !.out = call[p].out])
    /\ UNCHANGED <<config, fn, cred, credHist, view, loginMu, authMuW, authMuR,
                   now, nLoginPosts, nOps, resp>>

\* client.go:188-189, 207-215: token mode
DoToken(p) ==
    /\ pc[p] = "do"
    /\ call[p].ctx # "nil"
    /\ authMethod = AuthToken
    /\ Dispatch(p, DoRequest(p, AttachToken(NoReq)), "do_wait")
    /\ UNCHANGED <<config, fn, cred, credHist, view, loginMu, authMuW, authMuR,
                   now, nLoginPosts, nOps, resp>>

\* client.go:191-192  c.authMu.RLock() for the CSRF token
DoRLockCsrf(p) ==
    /\ pc[p] = "do"
    /\ call[p].ctx # "nil"
    /\ authMethod # AuthToken
    /\ call[p].csrf
    /\ authMuW = NoProc
    /\ authMuR' = authMuR \cup {p}
    /\ view' = Synced(p)
    /\ pc' = [pc EXCEPT ![p] = "do_csrf"]
    /\ UNCHANGED <<config, fn, cred, credHist, loginMu, authMuW, now,
                   nLoginPosts, nOps, call, req, resp, ret>>

\* client.go:193-196: read csrfToken, RUnlock
DoReadCsrf(p) ==
    /\ pc[p] = "do_csrf"
    /\ req' = [req EXCEPT ![p] = AttachCSRF(NoReq, cred, CurVer)]
    /\ authMuR' = authMuR \ {p}
    /\ pc' = [pc EXCEPT ![p] = "do_auth"]
    /\ UNCHANGED <<config, fn, cred, credHist, view, loginMu, authMuW, now,
                   nLoginPosts, nOps, call, resp, ret>>

\* the read lock for the cookie taken only while no Login is under way
DoRLockCookie_WaitsForLogin(p) ==
    /\ \/ pc[p] = "do" /\ call[p].ctx # "nil" /\ authMethod # AuthToken
          /\ ~call[p].csrf
       \/ pc[p] = "do_auth"
    /\ authMuW = NoProc
    /\ loginMu = NoProc
    /\ authMuR' = authMuR \cup {p}
    /\ view' = Synced(p)
    /\ pc' = [pc EXCEPT ![p] = "do_cookie"]
    /\ UNCHANGED <<config, fn, cred, credHist, loginMu, authMuW, now,
                   nLoginPosts, nOps, call, req, resp, ret>>

\* client.go:198  c.authMu.RLock() for the cookie
DoRLockCookie(p) ==
    /\ \/ pc[p] = "do" /\ call[p].ctx # "nil" /\ authMethod # AuthToken
          /\ ~call[p].csrf
       \/ pc[p] = "do_auth"
    /\ authMuW = NoProc
    /\ authMuR' = authMuR \cup {p}
    /\ view' = Synced(p)
    /\ pc' = [pc EXCEPT ![p] = "do_cookie"]
    /\ UNCHANGED <<config, fn, cred, credHist, loginMu, authMuW, now,
                   nLoginPosts, nOps, call, req, resp, ret>>

\* client.go:199-215: read authCookie / authTicket, RUnlock, headers, send
DoReadCookie(p) ==
    /\ pc[p] = "do_cookie"
    /\ authMuR' = authMuR \ {p}
    /\ Dispatch(p, DoRequest(p, AttachCookie(req[p], cred, CurVer)), "do_wait")
    /\ UNCHANGED <<config, fn, cred, credHist, view, loginMu, authMuW, now,
                   nLoginPosts, nOps, resp>>

\* do that drops the session when the server answers with an API error
DoResponse_DropsSession(p, r) ==
    /\ pc[p] = "do_wait"
    /\ r \in Responses
    /\ resp' = [resp EXCEPT ![p] = [NoResp EXCEPT !.kind = r.kind,
                                                  !.status = r.status,
                                                  !.body = r.body]]
    /\ Finish(p, Unwrap(r, call[p].out))
    /\ cred' = IF r.kind = "response" /\ r.status >= 400 /\ authMuW = NoProc
               THEN [cred EXCEPT !.ticket = 0, !.csrf = 0, !.cookie = 0]
               ELSE cred
    /\ credHist' = IF cred' # cred THEN Append(credHist, cred') ELSE credHist
    /\ UNCHANGED <<config, fn, view, loginMu, authMuW, authMuR,
                   now, nLoginPosts, nOps>>

\* do that sends the request again after a transport failure
DoResponse_RetryTransport(p, r) ==
    /\ pc[p] = "do_wait"
    /\ r \in Responses
    /\ resp' = [resp EXCEPT ![p] = [NoResp EXCEPT !.kind = r.kind,
                                                  !.status = r.status,
                                                  !.body = r.body]]
    /\ IF r.kind = "transport" /\ call[p].sent < 2
       THEN /\ call' = [call EXCEPT ![p].sent = @ + 1]
            /\ UNCHANGED <<pc, req, ret>>
       ELSE Finish(p, Unwrap(r, call[p].out))
    /\ UNCHANGED <<config, fn, cred, credHist, view, loginMu, authMuW, authMuR,
                   now, nLoginPosts, nOps>>

\* client.go:212-247: the response is unwrapped
DoResponse(p, r) ==
    /\ pc[p] = "do_wait"
    /\ r \in Responses
    /\ resp' = [resp EXCEPT ![p] = [NoResp EXCEPT !.kind = r.kind,
                                                  !.status = r.status,
                                                  !.body = r.body]]
    /\ Finish(p, Unwrap(r, call[p].out))
    /\ UNCHANGED <<config, fn, cred, credHist, view, loginMu, authMuW, authMuR,
                   now, nLoginPosts, nOps>>

\* ------------------------------------------------------------ ListVMs
\* vm.go:195-198: the request cannot be built
LvBuildError(p) ==
    /\ pc[p] = "lv"
    /\ call[p].ctx = "nil"
    /\ Finish(p, [NoRet EXCEPT !.kind = "build"])
    /\ UNCHANGED <<config, fn, cred, credHist, view, loginMu, authMuW, authMuR,
                   now, nLoginPosts, nOps, resp>>

\* vm.go:201-202, 209: token mode
LvToken(p) ==
    /\ pc[p] = "lv"
    /\ call[p].ctx # "nil"
    /\ authMethod = AuthToken
    /\ Dispatch(p, [AttachToken(NoReq) EXCEPT !.method = "GET"], "lv_wait")
    /\ UNCHANGED <<config, fn, cred, credHist, view, loginMu, authMuW, authMuR,
                   now, nLoginPosts, nOps, resp>>

\* vm.go:205: c.authTicket read with no lock held; the Cookie header is set
\* whatever the ticket is
LvReadTicket(p, x) ==
    /\ pc[p] = "lv"
    /\ call[p].ctx # "nil"
    /\ authMethod # AuthToken
    /\ x \in RacyReads(p, "ticket")
    /\ req' = [req EXCEPT ![p] = [NoReq EXCEPT !.method = "GET",
                                               !.cookie = "raw",
                                               !.cookieVal = x.val,
                                               !.cookieVer = x.ver]]
    /\ pc' = [pc EXCEPT ![p] = "lv_csrf"]
    /\ UNCHANGED <<config, fn, cred, credHist, view, loginMu, authMuW, authMuR,
                   now, nLoginPosts, nOps, call, resp, ret>>

\* vm.go:206-209: c.csrfToken read with no lock held, then the request is sent
LvReadCsrf(p, x) ==
    /\ pc[p] = "lv_csrf"
    /\ x \in RacyReads(p, "csrf")
    /\ Dispatch(p, [req[p] EXCEPT !.csrf = "cred", !.csrfVal = x.val,
                                  !.csrfVer = x.ver], "lv_wait")
    /\ UNCHANGED <<config, fn, cred, credHist, view, loginMu, authMuW, authMuR,
                   now, nLoginPosts, nOps, resp>>

\* vm.go:209-227
LvResponse(p, r) ==
    /\ pc[p] = "lv_wait"
    /\ r \in Responses
    /\ resp' = [resp EXCEPT ![p] = [NoResp EXCEPT !.kind = r.kind,
                                                  !.status = r.status,
                                                  !.body = r.body]]
    /\ Finish(p, ListVMsResult(r))
    /\ UNCHANGED <<config, fn, cred, credHist, view, loginMu, authMuW, authMuR,
                   now, nLoginPosts, nOps>>

\* ------------------------------------------------------------ specifications
\* operations and responses the concurrency specification draws from: one
\* operation that asks do for the CSRF token, one that does not; a transport
\* failure, an API error, and a 200 whose data CreateVM ignores, StartVM
\* fails to decode into its map and ListVMs decodes
FewOps == {"CreateVM", "StartVM"}

FewResponses ==
    {[kind |-> "transport", status |-> 0, body |-> "empty"],
     [kind |-> "response", status |-> 200, body |-> "data_arr"],
     [kind |-> "response", status |-> 403, body |-> "nonjson"]}

FewLoginResponses ==
    {r \in LoginResponses : r.kind = "ok" => (r.ticket = r.csrf)}

\* goroutines calling Login and the resource operations of one shared Client
Next ==
    \/ \E p \in Procs : CallLogin(p, "live")
    \/ \E p \in Procs, op \in FewOps : CallOp(p, op, "live")
    \/ \E p \in Procs : CallListVMs(p, "live")
    \/ \E p \in Procs : LoginLock(p) \/ LoginCheck(p) \/ LoginWLock(p)
    \/ \E p \in Procs, r \in FewLoginResponses : LoginResponse(p, r)
    \/ \E p \in Procs : LoginWriteTicket(p) \/ LoginWriteCsrf(p)
    \/ \E p \in Procs : LoginWriteCookie(p) \/ LoginWriteTime(p)
    \/ \E p \in Procs : DoToken(p) \/ DoRLockCsrf(p) \/ DoReadCsrf(p)
    \/ \E p \in Procs : DoRLockCookie(p) \/ DoReadCookie(p)
    \/ \E p \in Procs, r \in FewResponses : DoResponse(p, r)
    \/ \E p \in Procs : LvToken(p)
    \/ \E p \in Procs : \E x \in RacyReads(p, "ticket") : LvReadTicket(p, x)
    \/ \E p \in Procs : \E x \in RacyReads(p, "csrf") : LvReadCsrf(p, x)
    \/ \E p \in Procs, r \in FewResponses : LvResponse(p, r)
    \/ Tick

Spec == Init /\ [][Next]_vars

\* one caller driving Login, every resource operation and the request pipeline
\* do with every argument and every server response
NextPipeline ==
    \/ \E ctx \in Contexts : CallLogin(1, ctx)
    \/ LoginLock(1) \/ LoginCheck(1) \/ LoginWLock(1)
    \/ \E r \in LoginResponses : LoginResponse(1, r)
    \/ LoginWriteTicket(1) \/ LoginWriteCsrf(1)
    \/ LoginWriteCookie(1) \/ LoginWriteTime(1)
    \/ \E ctx \in Contexts, csrf \in BOOLEAN, hdrs \in HeaderMaps, out \in OutTargets :
          CallDo(1, ctx, csrf, hdrs, out)
    \/ \E op \in DoOps, ctx \in Contexts : CallOp(1, op, ctx)
    \/ \E ctx \in Contexts : CallListVMs(1, ctx)
    \/ LvToken(1)
    \/ \E x \in RacyReads(1, "ticket") : LvReadTicket(1, x)
    \/ \E x \in RacyReads(1, "csrf") : LvReadCsrf(1, x)
    \/ \E r \in Responses : LvResponse(1, r)
    \/ DoToken(1) \/ DoRLockCsrf(1) \/ DoReadCsrf(1)
    \/ DoRLockCookie(1) \/ DoReadCookie(1)
    \/ \E r \in Responses : DoResponse(1, r)

SpecPipeline == Init /\ [][NextPipeline]_vars

\* responses the cancellation specification draws from
CancelLoginResponses ==
    {r \in LoginResponses :
        r.kind = "transport" \/ (r.kind = "ok" /\ r.ticket /\ r.csrf /\ r.cookie)}

CancelResponses == {r \in FewResponses : r.kind = "response"}

\* goroutines calling Login, CreateVM and ListVMs with live and with canceled
\* contexts; every goroutine inside a call is scheduled again, and
\* httpClient.Do comes back (http.Client.Timeout, client.go:104)
StepOf(p) ==
    \/ LoginLock(p) \/ LoginCheck(p) \/ LoginWLock(p)
    \/ \E r \in CancelLoginResponses : LoginResponse(p, r)
    \/ LoginWriteTicket(p) \/ LoginWriteCsrf(p)
    \/ LoginWriteCookie(p) \/ LoginWriteTime(p)
    \/ DoToken(p) \/ DoRLockCsrf(p) \/ DoReadCsrf(p)
    \/ DoRLockCookie(p) \/ DoReadCookie(p)
    \/ \E r \in CancelResponses : DoResponse(p, r)
    \/ LvToken(p)
    \/ \E x \in RacyReads(p, "ticket") : LvReadTicket(p, x)
    \/ \E x \in RacyReads(p, "csrf") : LvReadCsrf(p, x)
    \/ \E r \in CancelResponses : LvResponse(p, r)

NextCancel ==
    \/ \E p \in Procs, ctx \in Contexts : CallLogin(p, ctx)
    \/ \E p \in Procs, ctx \in Contexts : CallOp(p, "CreateVM", ctx)
    \/ \E p \in Procs, ctx \in Contexts : CallListVMs(p, ctx)
    \/ \E p \in Procs : StepOf(p)

SpecCancel ==
    Init /\ [][NextCancel]_vars /\ \A p \in Procs : WF_vars(StepOf(p))

\* login responses the locking specification draws from: one for every way
\* out of Login after the POST
LockLoginResponses ==
    {r \in LoginResponses : r.kind = "ok" => (r.ticket /\ r.csrf /\ r.cookie)}

\* goroutines calling Login, CreateVM and ListVMs with live and with nil
\* contexts; every goroutine inside a call is scheduled again, and
\* httpClient.Do comes back (http.Client.Timeout, client.go:104)
LockStepOf(p) ==
    \/ LoginLock(p) \/ LoginCheck(p) \/ LoginWLock(p)
    \/ \E r \in LockLoginResponses : LoginResponse(p, r)
    \/ LoginWriteTicket(p) \/ LoginWriteCsrf(p)
    \/ LoginWriteCookie(p) \/ LoginWriteTime(p)
    \/ DoBuildError(p)
    \/ DoToken(p) \/ DoRLockCsrf(p) \/ DoReadCsrf(p)
    \/ DoRLockCookie(p) \/ DoReadCookie(p)
    \/ \E r \in CancelResponses : DoResponse(p, r)
    \/ LvBuildError(p)
    \/ LvToken(p)
    \/ \E x \in RacyReads(p, "ticket") : LvReadTicket(p, x)
    \/ \E x \in RacyReads(p, "csrf") : LvReadCsrf(p, x)
    \/ \E r \in CancelResponses : LvResponse(p, r)

NextLocks ==
    \/ \E p \in Procs, ctx \in BuildContexts : CallLogin(p, ctx)
    \/ \E p \in Procs, ctx \in BuildContexts : CallOp(p, "CreateVM", ctx)
    \/ \E p \in Procs, ctx \in BuildContexts : CallListVMs(p, ctx)
    \/ \E p \in Procs : LockStepOf(p)

SpecLocks ==
    Init /\ [][NextLocks]_vars /\ \A p \in Procs : WF_vars(LockStepOf(p))

\* the constructors, called with every argument
NextConstruct ==
    \/ CallNewClient
    \/ CallNewClientPassword
    \/ CallNewClientToken

SpecConstruct == InitConstruct /\ [][NextConstruct]_vars

\* ToFormParams called on every LxcContainer
InitLxc == InitHelper(LxcContainers)

NextLxc == CallToFormParams

SpecLxc == InitLxc /\ [][NextLxc]_vars

\* the request URL of every resource operation, for every node name
InitPaths == InitHelper(PathCalls)

NextPaths == CallOpURL \/ CallListVMsURL

SpecPaths == InitPaths /\ [][NextPaths]_vars

\* one caller of a password-mode client calling Login and calling CreateVM
\* or UpdateVMConfig with every vmid and config
InitVM == InitHelper(VMCalls)

NextVM ==
    \/ CallLogin(1, "live")
    \/ LoginLock(1) \/ LoginCheck(1) \/ LoginWLock(1)
    \/ \E r \in CancelLoginResponses : LoginResponse(1, r)
    \/ LoginWriteTicket(1) \/ LoginWriteCsrf(1)
    \/ LoginWriteCookie(1) \/ LoginWriteTime(1)
    \/ CallVM(1)
    \/ DoRLockCsrf(1) \/ DoReadCsrf(1)
    \/ DoRLockCookie(1) \/ DoReadCookie(1)
    \/ \E r \in FewResponses : DoResponse(1, r)

SpecVM == InitVM /\ [][NextVM]_vars

\* String called on every value of Int32Values
InitString == InitHelper(StringCalls)

NextString == CallString

SpecString == InitString /\ [][NextString]_vars

\* ------------------------------------------------------------ claims
\* p's request has left and its response has not arrived
InFlight(p) == pc[p] \in {"do_wait", "lv_wait"}

\* p stands at a read of ticket, CSRF token or cookie
AtCredRead(p) ==
    \/ pc[p] \in {"do_csrf", "do_cookie", "lv_csrf"}
    \/ pc[p] = "lv" /\ authMethod = AuthPassword

LoginFailures == {"transport", "status", "badbody"}

\* C1: in password mode a resource operation invoked while the Credential
\* State is invalid sends a login POST of its own before its request is
\* dispatched, and one invoked while it is valid sends none.
C1_LoginBeforeRequest ==
    [][\A p \in Procs :
          (authMethod = AuthPassword /\ call[p].op \in ResourceOps
           /\ ~InFlight(p) /\ InFlight(p)')
          => (resp[p].id # 0 <=> ~call[p].valid)]_vars

\* C2: when every one of the N goroutines has called Login once, within one
\* expiry window, against a client without valid credentials, and the first login
\* POST came back with a ticket, then exactly one login POST was sent, every
\* caller returned nil, and the Credential State holds what that one login
\* returned.
AllLoggedIn ==
    /\ authMethod = AuthPassword
    /\ nOps = NumProcs
    /\ \A p \in Procs : call[p].op = "Login" /\ pc[p] = "done"
    /\ CurVer >= 2
    /\ credHist[2].ticket = 1
    /\ now - credHist[2].lastLogin < loginExpiry

C2_SingleLogin ==
    AllLoggedIn =>
        /\ nLoginPosts = 1
        /\ \A p \in Procs : ret[p].kind = "ok"
        /\ CurVer = 2
        /\ cred = credHist[2]

C2_Witness == AllLoggedIn /\ \E p \in Procs : resp[p].kind = "none"

\* C3: a login POST that fails (transport error, non-200 status, undecodable
\* 200 body) makes Login return an error with ticket, CSRF token, cookie and
\* lastLogin exactly as Login found them.
C3_FailedLoginKeepsState ==
    [][\A p \in Procs :
          (pc[p] = "L_wait" /\ pc'[p] # "L_wait"
           /\ resp'[p].kind \in LoginFailures)
          => /\ pc'[p] = "done"
             /\ ret'[p].kind = "loginfailed"
             /\ cred' = call[p].before
             /\ cred' = cred]_vars

\* a failed refresh with stale credentials still in place
C3_Witness ==
    \E p \in Procs :
        /\ pc[p] = "done" /\ call[p].op = "Login"
        /\ ret[p].kind = "loginfailed" /\ resp[p].kind = "status"
        /\ nLoginPosts = 2 /\ CurVer = 2
        /\ cred.ticket = 1 /\ cred.csrf = 1 /\ cred.cookie = 1
        /\ now - cred.lastLogin >= loginExpiry

\* C4: in token mode the Credential State stays at its zero value, no login
\* POST is ever sent, and every request of Login and the resource operations
\* carries the Authorization header of the token and neither cookie nor CSRF
\* header.
C4_TokenModeStateless ==
    authMethod = AuthToken =>
        /\ cred = ZeroCred
        /\ credHist = <<ZeroCred>>
        /\ nLoginPosts = 0
        /\ loginMu = NoProc /\ authMuW = NoProc /\ authMuR = {}
        /\ \A p \in Procs :
              /\ req[p].cookie = "none" /\ req[p].csrf = "none"
              /\ InFlight(p) => req[p].authz = "token"
              /\ ~AtCredRead(p)

C4_Witness ==
    /\ authMethod = AuthToken
    /\ \E p, q \in Procs :
          /\ InFlight(p) /\ call[p].op = "ListVMs"
          /\ pc[q] = "done" /\ call[q].op = "Login" /\ ret[q].kind = "ok"

\* C5: a request whose call began after a login completed carries cookie /
\* ticket and CSRF token as that login, or a later one, wrote them.
SinceCall(p) == {credHist[i] : i \in call[p].ver..CurVer} \cup {cred}

C5_RequestsSeeCompletedLogin ==
    \A p \in Procs :
        (InFlight(p) /\ authMethod = AuthPassword) =>
            /\ req[p].cookie = "jar"
               => \E c \in SinceCall(p) : req[p].cookieVal = c.cookie
            /\ req[p].cookie = "raw"
               => \E c \in SinceCall(p) : req[p].cookieVal = c.ticket
            /\ req[p].csrf = "cred"
               => \E c \in SinceCall(p) : req[p].csrfVal = c.csrf

\* C6: every read of ticket, CSRF token or cookie is made holding authMu for
\* reading, and none is made while Login holds authMu for writing.
C6_ReadsUnderLock ==
    /\ \A p \in Procs : AtCredRead(p) => p \in authMuR
    /\ authMuW # NoProc => \A p \in Procs : ~AtCredRead(p)

\* C7: whatever headers map the caller passes to do, the dispatched request
\* still carries every authentication header the pipeline attached.
C7_AuthHeadersSurvive ==
    \A p \in Procs :
        pc[p] = "do_wait" =>
            /\ "Authorization" \in req[p].attached => req[p].authz = "token"
            /\ "Cookie" \in req[p].attached => req[p].cookie \in {"jar", "raw"}
            /\ "CSRFPreventionToken" \in req[p].attached => req[p].csrf = "cred"

\* C8: a state-changing operation of a password-mode client calls do with
\* CSRF attachment required and its request carries the CSRF token held; no
\* request of a token-mode client carries a CSRF header.
C8_StateChangingCarriesCSRF ==
    \A p \in Procs :
        /\ (authMethod = AuthPassword /\ call[p].op \in StateChangingOps
            /\ pc[p] = "do_wait"
            /\ CurVer = call[p].ver /\ authMuW = NoProc /\ cred.csrf # 0)
           => /\ call[p].csrf
              /\ req[p].csrf = "cred" /\ req[p].csrfVal = cred.csrf
        /\ authMethod = AuthToken => req[p].csrf = "none"

\* C9: for a response with status >= 400, whatever its body, do returns an
\* APIError whose Status is the status of the response.
C9_StatusNeverMasked ==
    \A p \in Procs :
        (pc[p] = "done" /\ call[p].op \in DoOps \cup {"do"}
         /\ resp[p].kind = "response" /\ resp[p].status >= 400)
        => ret[p].kind = "APIError" /\ ret[p].status = resp[p].status

C9_Witness ==
    \E p \in Procs :
        /\ pc[p] = "done" /\ call[p].op = "do" /\ ret[p].out.kind # "nil"
        /\ resp[p].status = 403 /\ resp[p].body = "nonjson"
        /\ ret[p].kind = "APIError"

\* C10: for a response with status >= 400 whose body is not JSON or has no
\* errors field, the APIError carries a non-nil errors map.
C10_ErrorsMapNonNil ==
    \A p \in Procs :
        (pc[p] = "done" /\ call[p].op \in DoOps \cup {"do"}
         /\ resp[p].kind = "response" /\ resp[p].status >= 400
         /\ resp[p].body \in {"nonjson", "empty", "obj", "data_obj"})
        => ret[p].kind = "APIError" /\ ret[p].errors # "nil"

\* bodies that parse as an envelope whose data is absent, or null
DataAbsent == {b \in Bodies \ {"empty", "nonjson"} : RawData(b) = "absent"}
DataNull == {b \in Bodies : RawData(b) = "null"}

\* C11: for a response below 400 whose envelope has data absent or null and
\* a decode target passed to do, do returns nil and the target is exactly as
\* the caller passed it in, whatever it was (struct, map or slice, zero or
\* populated).
C11_NullDataLeavesTarget ==
    [][\A p \in Procs :
          (pc[p] = "do_wait" /\ pc'[p] = "done"
           /\ call[p].out.kind # "nil"
           /\ resp'[p].kind = "response" /\ resp'[p].status < 400
           /\ resp'[p].body \in DataAbsent \cup DataNull)
          => ret'[p].kind = "ok" /\ ret'[p].out = call[p].out]_vars

\* C12: a call made with an already-canceled context that gets as far as
\* httpClient.Do returns the Canceled error: it never has a request in flight
\* (so no retry either), sends no login POST, leaves the Credential State
\* alone, and it returns.  A Login that returns nil instead is the no-op on
\* valid credentials, which issues no request.
Running(p) == pc[p] \notin {"idle", "done"}

AtNetwork(p) == pc[p] \in {"L_wait", "do_wait", "lv_wait"}

C12_CanceledReturnsCanceled ==
    /\ [][\A p \in Procs :
            (call[p].ctx = "canceled" /\ Running(p) /\ pc'[p] # pc[p])
            => /\ ~AtNetwork(p)'
               /\ cred' = cred /\ credHist' = credHist
               /\ nLoginPosts' = nLoginPosts
               /\ pc'[p] = "done"
                  => \/ ret'[p].kind = "canceled"
                     \/ /\ call[p].op = "Login" /\ Valid(cred, now)
                        /\ ret'[p].kind = "ok"]_vars
    /\ \A p \in Procs :
          (call[p].ctx = "canceled" /\ Running(p)) ~> (pc[p] = "done")

\* a canceled Login has returned Canceled beside a Login whose POST failed
C12_Witness ==
    \E p, q \in Procs :
        /\ authMethod = AuthPassword
        /\ pc[p] = "done" /\ call[p].op = "Login" /\ ret[p].kind = "canceled"
        /\ pc[q] = "done" /\ call[q].op = "Login" /\ ret[q].kind = "loginfailed"
        /\ nLoginPosts = 1

\* C13: a call of do hands at most one request to httpClient.Do and returns
\* as soon as that request has its outcome (transport failure, API error,
\* decode error or success); a request in flight stays as it was dispatched
\* while a Login of another goroutine completes.
DoCall(p) == call[p].op \in DoOps \cup {"do"}

C13_OneRequestPerCall ==
    [][\A p \in Procs :
          DoCall(p) =>
              /\ call'[p].sent <= 1
              /\ (pc[p] = "do_wait" /\ resp'[p] # resp[p])
                 => /\ pc'[p] = "done"
                    /\ ret'[p].kind =
                          CASE resp'[p].kind = "transport" -> "transport"
                            [] resp'[p].status >= 400 -> "APIError"
                            [] OTHER -> ret'[p].kind
                    /\ ret'[p].kind \in {"transport", "APIError", "decode", "ok"}
              /\ (pc[p] = "do_wait" /\ resp'[p] = resp[p])
                 => pc'[p] = "do_wait" /\ req'[p] = req[p]
                    /\ call'[p] = call[p]]_vars

\* a request dispatched without credentials is still in flight, as it was,
\* after the Login of another goroutine has completed
C13_Witness ==
    \E p, q \in Procs :
        /\ pc[p] = "do_wait" /\ call[p].op = "StartVM" /\ call[p].sent = 1
        /\ req[p].cookie = "none"
        /\ pc[q] = "done" /\ call[q].op = "Login" /\ ret[q].kind = "ok"
        /\ cred.ticket = 1 /\ cred.cookie = 1

\* C14: Login of a password-mode client decides under loginMu, on a
\* Credential State no one is writing: when lastLogin is less than
\* loginExpiry ago and the ticket is not empty it returns nil having sent
\* nothing and changed nothing, and otherwise it sends one login POST; a
\* Login that has returned sent no POST in the first case and exactly one in
\* the second.
C14_NoOpIffValid ==
    [][\A p \in Procs :
          /\ (pc[p] = "L_check" /\ pc'[p] # "L_check")
             => /\ authMethod = AuthPassword
                /\ loginMu = p /\ authMuW = NoProc /\ cred = credHist[CurVer]
                /\ IF now - cred.lastLogin < loginExpiry /\ cred.ticket # 0
                   THEN /\ nLoginPosts' = nLoginPosts /\ call[p].sent = 0
                        /\ cred' = cred /\ credHist' = credHist
                        /\ pc'[p] = "done" /\ ret'[p].kind = "ok"
                   ELSE /\ nLoginPosts' = nLoginPosts + 1
                        /\ call'[p].sent = 1
                        /\ pc'[p] = "L_wait"
          /\ (call[p].op = "Login" /\ pc[p] # "L_check" /\ Running(p)
              /\ pc'[p] # pc[p])
             => /\ nLoginPosts' = nLoginPosts
                /\ call'[p].sent = IF pc'[p] = "done" THEN 0 ELSE call[p].sent
                /\ pc'[p] = "done" => call[p].sent = 1]_vars

\* within the expiry window of a login that brought no ticket, a second
\* Login has sent its POST
C14_Witness ==
    \E p \in Procs :
        /\ pc[p] = "L_wait" /\ nLoginPosts = 2
        /\ cred.ticket = 0 /\ CurVer = 2
        /\ now - cred.lastLogin < loginExpiry

\* C15: the four fields of a successful login are stored by the holder of
\* authMu's write lock in one critical section: while any goroutine holds
\* the read lock no write is under way and the Credential State is that of
\* one completed login in all four fields.
Writing(p) == pc[p] \in {"L_wTicket", "L_wCsrf", "L_wCookie", "L_wTime"}

OfOneLogin(c) ==
    \/ c = ZeroCred
    \/ \E k \in 1..nLoginPosts :
          \A f \in {"ticket", "csrf", "cookie"} : c[f] \in {0, k}

C15_LoginWriteAtomic ==
    /\ \A p \in Procs : Writing(p) <=> authMuW = p
    /\ authMuW # NoProc => authMuR = {} /\ loginMu = authMuW
    /\ authMuW = NoProc => cred = credHist[CurVer]
    /\ \A i \in 1..CurVer : OfOneLogin(credHist[i])
    /\ authMuR # {} => OfOneLogin(cred)

\* a Login holding its decoded response waits for a reader to leave
C15_Witness ==
    \E p, q \in Procs :
        /\ pc[q] = "L_wlock" /\ resp[q].ticket /\ resp[q].csrf /\ resp[q].cookie
        /\ p \in authMuR /\ pc[p] = "do_cookie"
        /\ req[p].csrf = "none" /\ call[p].csrf

\* C16: a constructed client skips TLS verification exactly when the caller
\* passed true as the TLS flag of the constructor.
C16_TLSFlagHonoured ==
    built = "client" => insecureSkipVerify = args.tlsCfg

\* C17: a constructor given an empty base URL, or one url.Parse rejects,
\* returns an error and no client; a constructor that returns a client has
\* cut every trailing slash off the base URL and nothing else, has sent
\* nothing, and leaves the Credential State empty and no lock held.
C17_ConstructionValidates ==
    built # "none" =>
        /\ (args.base = <<>> \/ \E i \in 1..Len(args.base) : args.base[i] = "%")
           => /\ built = "error"
              /\ baseURL = "nil" /\ username = "" /\ password = ""
        /\ built = "client"
           => /\ \E k \in 0..Len(args.base) :
                    /\ baseURL = SubSeq(args.base, 1, k)
                    /\ \A i \in (k + 1)..Len(args.base) : args.base[i] = "/"
                    /\ k > 0 => args.base[k] # "/"
              /\ username = args.username /\ password = args.password
        /\ cred = ZeroCred /\ credHist = <<ZeroCred>>
        /\ nLoginPosts = 0 /\ nOps = 0
        /\ loginMu = NoProc /\ authMuW = NoProc /\ authMuR = {}
        /\ \A p \in Procs : pc[p] = "idle" /\ req[p] = NoReq /\ resp[p] = NoResp

\* two trailing slashes were cut
C17_Witness ==
    /\ built = "client"
    /\ args.base = <<"x", "/", "/">>
    /\ baseURL = <<"x">>

\* C18: no goroutine holds authMu, for reading or for writing, while its
\* HTTP call is in flight; a resource operation never holds or waits for
\* loginMu, and its next step can be taken whenever no Login is inside the
\* write of the four fields, also while the login POST of another goroutine
\* is in flight; a Login waits at loginMu exactly while another Login holds it.
InResourceOp(p) == Running(p) /\ call[p].op \in ResourceOps \cup {"do"}

ResourceStep(p) ==
    \/ DoToken(p) \/ DoRLockCsrf(p) \/ DoReadCsrf(p)
    \/ DoRLockCookie(p) \/ DoReadCookie(p)
    \/ \E r \in Responses : DoResponse(p, r)
    \/ LvToken(p)
    \/ \E x \in RacyReads(p, "ticket") : LvReadTicket(p, x)
    \/ \E x \in RacyReads(p, "csrf") : LvReadCsrf(p, x)
    \/ \E r \in Responses : LvResponse(p, r)

C18_RequestsNeverWaitForLogin ==
    \A p \in Procs :
        /\ AtNetwork(p) => authMuW # p /\ p \notin authMuR
        /\ InResourceOp(p)
           => /\ loginMu # p /\ authMuW # p
              /\ authMuW = NoProc => ENABLED ResourceStep(p)
        /\ pc[p] = "L_lock" => (ENABLED LoginLock(p) <=> loginMu = NoProc)

\* a resource request reads the credentials while the login POST of another
\* goroutine is in flight
C18_Witness ==
    \E p, q \in Procs :
        /\ pc[q] = "L_wait" /\ loginMu = q
        /\ pc[p] = "do_cookie" /\ p \in authMuR /\ call[p].op = "CreateVM"

\* C19: a resource operation that got an outcome from httpClient.Do returns
\* what do returns for that outcome and the decode target of the operation:
\* the same kind of error or success, the same status, the same errors map.
TargetOf(op) ==
    IF op = "ListVMs" THEN [kind |-> "slice", val |-> "zero"] ELSE OutArg(op)

OutcomeOf(p) ==
    [kind |-> resp[p].kind, status |-> resp[p].status, body |-> resp[p].body]

C19_OperationsSurfacePipeline ==
    \A p \in Procs :
        (pc[p] = "done" /\ call[p].op \in ResourceOps
         /\ resp[p].kind \in {"transport", "response"})
        => LET want == Unwrap(OutcomeOf(p), TargetOf(call[p].op))
           IN  /\ ret[p].kind = want.kind
               /\ ret[p].status = want.status
               /\ ret[p].errors = want.errors

\* C20: ticket, CSRF token, cookie and lastLogin change only in a step of a
\* Login that holds authMu for writing with a decoded 200 response in hand;
\* no step of a resource operation or of do changes them, whatever it
\* returns; base URL, auth method, user name and password never change.
C20_OnlyLoginWrites ==
    [][/\ (cred' # cred \/ credHist' # credHist)
          => \E p \in Procs :
                /\ call[p].op = "Login" /\ Writing(p) /\ authMuW = p
                /\ pc'[p] # pc[p]
                /\ resp[p].kind = "ok"
       /\ \A p \in Procs :
             (InResourceOp(p) /\ pc'[p] # pc[p])
             => cred' = cred /\ credHist' = credHist
       /\ <<baseURL, authMethod, username, password>>'
             = <<baseURL, authMethod, username, password>>]_vars

\* with a session held, a resource operation has come back with an API error
C20_Witness ==
    \E p \in Procs :
        /\ pc[p] = "done" /\ call[p].op = "StartVM"
        /\ ret[p].kind = "APIError" /\ ret[p].status = 403
        /\ cred.ticket = 1 /\ cred.csrf = 1 /\ cred.cookie = 1 /\ CurVer = 2

\* C21: a request do dispatches for a password-mode client, whatever the
\* Credential State: do attached the CSRF header exactly when csrf was asked
\* for and a CSRF token is held, and it carries that token; do attached the
\* stored cookie when there is one, else the raw PVEAuthCookie=<ticket>
\* header when a ticket is held, else no cookie; do attached no
\* Authorization header.  (Headers of the caller's map are the caller's.)
C21_PasswordModeAttachment ==
    \A p \in Procs :
        (pc[p] = "do_wait" /\ authMethod = AuthPassword) =>
            /\ "Authorization" \notin req[p].attached
            /\ "Authorization" \notin call[p].hdrs => req[p].authz = "none"
            /\ "CSRFPreventionToken" \in req[p].attached
                  <=> (call[p].csrf /\ cred.csrf # 0)
            /\ "CSRFPreventionToken" \notin call[p].hdrs
                  => IF call[p].csrf /\ cred.csrf # 0
                     THEN req[p].csrf = "cred" /\ req[p].csrfVal = cred.csrf
                     ELSE req[p].csrf = "none"
            /\ "Cookie" \in req[p].attached
                  <=> (cred.cookie # 0 \/ cred.ticket # 0)
            /\ "Cookie" \notin call[p].hdrs
                  => CASE cred.cookie # 0 ->
                            req[p].cookie = "jar" /\ req[p].cookieVal = cred.cookie
                       [] cred.cookie = 0 /\ cred.ticket # 0 ->
                            req[p].cookie = "raw" /\ req[p].cookieVal = cred.ticket
                       [] OTHER -> req[p].cookie = "none"

\* a login brought a ticket and a CSRF token but no cookie: the request
\* carries the CSRF token and the raw ticket header
C21_Witness ==
    \E p \in Procs :
        /\ pc[p] = "do_wait" /\ authMethod = AuthPassword /\ call[p].csrf
        /\ cred.cookie = 0 /\ cred.ticket = 1 /\ cred.csrf = 1
        /\ req[p].cookie = "raw" /\ req[p].csrf = "cred"

\* C22: ToFormParams returns a parameter map for every LxcContainer, with
\* no, one or several SSH keys: the process is never ended; the keys are in
\* the map, joined by newlines, exactly when there is at least one.
C22_ToFormParamsNeverExits ==
    output.done =>
        /\ ~output.exited
        /\ "ssh-public-keys" \in DOMAIN output.params
              <=> Len(input.SshPublicKeys) >= 1
        /\ Len(input.SshPublicKeys) >= 1
              => Len(output.params["ssh-public-keys"])
                    = 2 * Len(input.SshPublicKeys) - 1

\* two keys, joined
C22_Witness ==
    /\ output.done /\ ~output.exited
    /\ input.SshPublicKeys = <<"ssh-a", "ssh-b">>
    /\ output.params["ssh-public-keys"] = <<"ssh-a", "\n", "ssh-b">>
    /\ input.VmId = 100 /\ output.params["vmid"] = <<100>>

\* C23: for a response below 400, do called without a decode target returns
\* nil whatever the body is (an envelope, bytes that are not JSON, nothing);
\* do called with a decode target returns nil for an empty body and the target
\* is as it was passed.
C23_NoTargetBodyDiscarded ==
    [][\A p \in Procs :
          (pc[p] = "do_wait" /\ pc'[p] = "done"
           /\ resp'[p].kind = "response" /\ resp'[p].status < 400)
          => /\ call[p].out.kind = "nil"
                => ret'[p].kind = "ok" /\ ret'[p].out = OutNone
             /\ (call[p].out.kind # "nil" /\ resp'[p].body = "empty")
                => ret'[p].kind = "ok" /\ ret'[p].out = call[p].out]_vars

\* CreateVM, which passes no target, returned nil for a 200 that is not JSON
C23_Witness ==
    \E p \in Procs :
        /\ pc[p] = "done" /\ call[p].op = "CreateVM"
        /\ resp[p].status = 200 /\ resp[p].body = "nonjson"
        /\ ret[p].kind = "ok" /\ ret[p].out = OutNone

\* C24: for every node name, the request of a resource operation (ListVMs
\* as well as the operations that go through do) has a path in which the node
\* is exactly one segment, between "nodes" and what the operation puts after
\* it, and has the query the operation intended (full=0 or full=1 for ListVMs,
\* none for the others).
C24_NodeIsOneSegment ==
    (output.done /\ input.of \in ResourceOps) =>
        /\ \E x \in {Segments(output.path)[i] : i \in 1..Len(Segments(output.path))} :
              Segments(output.path)
                 = Split(apiNodesPath) \o <<x>>
                      \o Tail(Split(AfterNode(input.of, input.vmid)))
        /\ output.query = IF input.of = "ListVMs"
                          THEN <<IF input.full THEN "full=1" ELSE "full=0">>
                          ELSE <<>>

\* C25: the CSRF token and the cookie (or ticket) do attaches to one request
\* of a password-mode client are those of one login: from the read of the
\* CSRF token to the read of the cookie no write of the Credential State
\* completes, and a request in flight that carries both carries the values
\* of the same login, read from the same Credential State.
C25_OneLoginPerRequest ==
    /\ [](\A p \in Procs :
            (pc[p] = "do_wait" /\ authMethod = AuthPassword
             /\ "CSRFPreventionToken" \in req[p].attached
             /\ "Cookie" \in req[p].attached)
            => /\ req[p].csrfVer = req[p].cookieVer
               /\ req[p].csrfVal = req[p].cookieVal)
    /\ [][\A p \in Procs :
            (authMethod = AuthPassword /\ call[p].csrf
             /\ pc[p] \in {"do_csrf", "do_auth", "do_cookie"})
            => credHist' = credHist /\ cred' = cred]_vars

\* C26: a Login of a password-mode client that returns nil leaves a
\* Credential State with a ticket, on which a Login that follows at once is
\* a no-op; a Login whose 200 response carried no ticket stores nothing and
\* does not return nil.
C26_LoginSuccessMeansTicket ==
    [][\A p \in Procs :
          (authMethod = AuthPassword /\ call[p].op = "Login" /\ pc'[p] # pc[p])
          => /\ (pc'[p] = "done" /\ ret'[p].kind = "ok")
                => cred'.ticket # 0 /\ Valid(cred', now')
             /\ (resp[p].kind = "ok" /\ ~resp[p].ticket)
                => /\ cred' = cred /\ credHist' = credHist
                   /\ pc'[p] = "done" => ret'[p].kind # "ok"]_vars

\* C27: a goroutine that is not inside a call holds no lock; authMu is held
\* for writing only inside the write of Login, by the holder of loginMu, and
\* for reading only inside the two reads of do; no goroutine waits for
\* loginMu while it holds authMu; while a call is under way some goroutine
\* can take a step; and every call, of Login or of a resource operation,
\* returns, whichever way Login leaves (still valid, request not built,
\* transport error, non-200, undecodable body, success).
C27_LocksReleased ==
    /\ [](\A p \in Procs :
            /\ ~Running(p) => loginMu # p /\ authMuW # p /\ p \notin authMuR
            /\ authMuW = p => Writing(p) /\ loginMu = p
            /\ p \in authMuR => pc[p] \in {"do_csrf", "do_cookie"}
            /\ loginMu = p => call[p].op = "Login" /\ Running(p) /\ pc[p] # "L_lock"
            /\ pc[p] = "L_lock" => authMuW # p /\ p \notin authMuR)
    /\ []((\E p \in Procs : Running(p)) => ENABLED (\E p \in Procs : LockStepOf(p)))
    /\ \A p \in Procs : Running(p) ~> (pc[p] = "done")

\* a Login whose request could not be built has returned, and the Login of
\* another goroutine has taken loginMu after it and sent its POST
C27_Witness ==
    \E p, q \in Procs :
        /\ pc[p] = "done" /\ call[p].op = "Login" /\ ret[p].kind = "build"
        /\ pc[q] = "L_wait" /\ loginMu = q /\ nLoginPosts = 1

\* C28: when do returns the APIError of a response with status >= 400, the
\* decode target is exactly as the caller passed it, whatever the body of the
\* error response holds (a data field included).
C28_ErrorLeavesTarget ==
    [][\A p \in Procs :
          (pc[p] = "do_wait" /\ pc'[p] = "done"
           /\ resp'[p].kind = "response" /\ resp'[p].status >= 400)
          => ret'[p].kind = "APIError" /\ ret'[p].out = call[p].out]_vars

\* a populated map was passed and the error body carried data
C28_Witness ==
    \E p \in Procs :
        /\ pc[p] = "done" /\ call[p].op = "do"
        /\ resp[p].status = 400 /\ resp[p].body = "errors_data"
        /\ ret[p].kind = "APIError"
        /\ ret[p].out = [kind |-> "map", val |-> "prior"]

\* C29: CreateVM called with a nil config or with vmid <= 0, and
\* UpdateVMConfig called with a nil config, return an error: no request has
\* been built or sent, no login POST, and the Credential State is as it was.
\* CreateVM called with vmid > 0 and a config hands one POST to
\* httpClient.Do, and its form has vmid set to the decimal text of the vmid
\* passed, whatever the Raw map of the config says about vmid.
Rejected == input.cfg.nil \/ (input.of = "CreateVM" /\ input.vmid <= 0)

C29_InvalidArgumentsSendNothing ==
    /\ [](\A p \in Procs :
            (call[p].op = input.of /\ pc[p] # "idle") =>
                /\ Rejected
                   => /\ pc[p] = "done" /\ ret[p].kind = "invalid"
                      /\ req[p] = NoReq /\ resp[p] = NoResp /\ call[p].sent = 0
                /\ ~Rejected => ret[p].kind # "invalid"
                /\ (~Rejected /\ input.of = "CreateVM" /\ pc[p] = "do_wait")
                   => /\ call[p].sent = 1
                      /\ req[p].method = "POST"
                      /\ "vmid" \in DOMAIN req[p].form
                      /\ req[p].form["vmid"] = Sprintd(input.vmid)
                /\ (~Rejected /\ pc[p] = "done") => resp[p].kind # "none")
    /\ [][\A p \in Procs :
            (Rejected /\ call'[p].op = input.of /\ nOps' # nOps)
            => /\ cred' = cred /\ credHist' = credHist
               /\ nLoginPosts' = nLoginPosts
               /\ loginMu' = loginMu /\ authMuW' = authMuW /\ authMuR' = authMuR]_vars

\* with a session held, CreateVM was rejected for its vmid
C29_Witness ==
    \E p \in Procs :
        /\ input.of = "CreateVM" /\ input.vmid = 0 /\ ~input.cfg.nil
        /\ pc[p] = "done" /\ call[p].op = "CreateVM" /\ ret[p].kind = "invalid"
        /\ cred.ticket = 1 /\ nLoginPosts = 1

\* C30: String(n) is the canonical decimal text of n: a minus sign exactly
\* when n is negative, then digits without a leading zero (the single digit
\* 0 for zero) whose value is the magnitude of n; every write is inside the
\* 11 bytes of the buffer (the position never goes below 0), and the loop
\* runs once per digit, at most 10 times.
IsDigit(ch) == \E d \in 1..10 : DigitChars[d] = ch

DigitValue(ch) == (CHOOSE d \in 1..10 : DigitChars[d] = ch) - 1

\* minus the value of a digit string (the magnitude of MinInt32 has no
\* positive counterpart)
RECURSIVE NegValue(_)
NegValue(ds) ==
    IF ds = <<>> THEN 0
    ELSE 10 * NegValue(SubSeq(ds, 1, Len(ds) - 1)) - DigitValue(ds[Len(ds)])

C30_StringIsCanonicalDecimal ==
    (output.done /\ input.of = "String") =>
        LET str == output.str
            ds == IF input.n < 0 THEN Tail(str) ELSE str
        IN  /\ output.inside /\ output.pos >= 0
            /\ Len(str) = BufLen - output.pos
            /\ output.iters <= 10
            /\ str # <<>>
            /\ (str[1] = "-") <=> (input.n < 0)
            /\ ds # <<>> /\ \A k \in 1..Len(ds) : IsDigit(ds[k])
            /\ output.iters = Len(ds)
            /\ Len(ds) > 1 => ds[1] # "0"
            /\ NegValue(ds) = IF input.n < 0 THEN input.n ELSE -input.n

\* the minimum fills the buffer: ten digits and the sign
C30_Witness ==
    /\ output.done /\ input.of = "String" /\ input.n = MinInt32
    /\ output.str = <<"-", "2", "1", "4", "7", "4", "8", "3", "6", "4", "8">>
    /\ output.pos = 0 /\ output.iters = 10

====
